---- MODULE Spec2Model ----
(***************************************************************************)
(* A model of src/parser.rs (ggicci/ramen): the translation of a YAML      *)
(* schema of a command-line program into a clap Command.                   *)
(*                                                                         *)
(* Text is a sequence of characters (one-character strings), so that the   *)
(* regular expression and chars().next() act on characters.  A YAML node   *)
(* is a record tagged with its kind, as the enum yaml_rust::Yaml.          *)
(***************************************************************************)
EXTENDS Integers, Sequences, FiniteSets, TLC

VARIABLES
    yaml,      \* parse: the input text, given by what the YAML loader makes of it
    pc,        \* parse: the position in the function body
    docs,      \* parse: `docs`, the loaded documents
    vres,      \* parse: what validate_root_docs returned
    parser,    \* parse: `parser`, the ArgumentParser (its doc), once constructed
    command,   \* parse: `command`, the clap Command under construction
    args,      \* parse: `args`, the Vec<Argument> of parser.args()
    idx,       \* parse: the position of the `for arg in args.iter()` loop
    handed,    \* parse: the Command the external engine was run on
    result,    \* parse: how the run ended
    node,      \* accessor calls: the Yaml the ArgumentParser / Argument wraps
    op,        \* accessor calls: the accessor called last
    ret        \* accessor calls: what it returned

vars == <<yaml, pc, docs, vres, parser, command, args, idx, handed, result, node, op, ret>>

driverVars == <<yaml, pc, docs, vres, parser, command, args, idx, handed, result>>

callVars == <<node, op, ret>>

(***************************************************************************)
(* Bounds of the model.                                                    *)
(***************************************************************************)
\* the longest bare text of an Argument Entry that is enumerated
MaxLen == 7
\* the longest text of a structured field that is enumerated
MaxFieldLen == 2
\* the longest `args` sequence
MaxArgs == 2
\* the largest number of documents in one input
MaxDocs == 2

(***************************************************************************)
(* Option<T>, and a panic (an unwinding the caller does not catch).        *)
(***************************************************************************)
None == [some |-> FALSE]

Some(v) == [some |-> TRUE, v |-> v]

Panic == [panic |-> TRUE]

\* Option::unwrap_or_default for &str
unwrap_or_default(o) == IF o.some THEN o.v ELSE <<>>

\* Option::unwrap_or
unwrap_or(o, d) == IF o.some THEN o.v ELSE d

\* Option::or
or(o, other) == IF o.some THEN o ELSE other

\* Option<Option<T>>::flatten
flatten(o) == IF o.some THEN o.v ELSE None

\* str::chars().next()
chars_next(s) == IF Len(s) = 0 THEN None ELSE Some(s[1])

(***************************************************************************)
(* Characters.                                                             *)
(***************************************************************************)
Lower == {"a","b","c","d","e","f","g","h","i","j","k","l","m",
          "n","o","p","q","r","s","t","u","v","w","x","y","z"}

Upper == {"A","B","C","D","E","F","G","H","I","J","K","L","M",
          "N","O","P","Q","R","S","T","U","V","W","X","Y","Z"}

Letter == Lower \cup Upper

Digit == {"0","1","2","3","4","5","6","7","8","9"}

\* every character of the model: the letters, the digits, the hyphen and two
\* characters of no class of the pattern
AllChars == Letter \cup Digit \cup {"-", "/", "_"}

\* the characters texts are enumerated over: hyphen, slash, a letter and a digit
Chars == {"-", "/", "C", "7"}

Texts(n) == UNION {[1..k -> Chars] : k \in 0..n}

(***************************************************************************)
(* yaml_rust::Yaml.                                                        *)
(***************************************************************************)
String(s) == [kind |-> "String", str |-> s]

Real(s) == [kind |-> "Real", str |-> s]

Integer == [kind |-> "Integer"]

Boolean == [kind |-> "Boolean"]

Null == [kind |-> "Null"]

BadValue == [kind |-> "BadValue"]

Array(v) == [kind |-> "Array", vec |-> v]

Hash(h) == [kind |-> "Hash", hash |-> h]

\* Yaml::as_str: only Yaml::String holds a str
as_str(y) == IF y.kind = "String" THEN Some(y.str) ELSE None

\* Yaml::as_vec: only Yaml::Array holds a Vec
as_vec(y) == IF y.kind = "Array" THEN Some(y.vec) ELSE None

\* Yaml's Index<&str>: BadValue for a missing key and for a node that is no Hash
Index(y, key) ==
    IF y.kind = "Hash" /\ key \in DOMAIN y.hash THEN y.hash[key] ELSE BadValue

(***************************************************************************)
(* The regular expression.  A pattern is a sequence of items: the anchors  *)
(* "bol" and "eol", and character classes taken once ("one") or any number *)
(* of times, greedily ("star"); grp names the capture group an item is in. *)
(***************************************************************************)
Bol == [rep |-> "bol", cls |-> {}, grp |-> ""]

Eol == [rep |-> "eol", cls |-> {}, grp |-> ""]

One(c, g) == [rep |-> "one", cls |-> c, grp |-> g]

Star(c, g) == [rep |-> "star", cls |-> c, grp |-> g]

\* ^-(?P<short>[a-zA-Z])/--(?P<long>[a-zA-Z][a-zA-Z0-9-]+)$ : a long name of two
\* characters or more
RegLongPlus ==
    << Bol, One({"-"}, ""), One(Letter, "short"), One({"/"}, ""), One({"-"}, ""),
       One({"-"}, ""), One(Letter, "long"), One(Letter \cup Digit \cup {"-"}, "long"),
       Star(Letter \cup Digit \cup {"-"}, "long"), Eol >>

\* ^-(?P<short>[a-zA-Z])/--(?P<long>[a-zA-Z][a-zA-Z0-9-]*)$
REG_SHORT_LONG_ARG_NAME ==
    << Bol, One({"-"}, ""), One(Letter, "short"), One({"/"}, ""), One({"-"}, ""),
       One({"-"}, ""), One(Letter, "long"), Star(Letter \cup Digit \cup {"-"}, "long"),
       Eol >>

NoMatch == [ok |-> FALSE, by |-> <<>>]

\* The match of items k.. of re at position j of hay: by[n] is the item that
\* consumed the n-th character of the match.
RECURSIVE MatchAt(_, _, _, _)
MatchAt(re, k, hay, j) ==
    IF k > Len(re) THEN [ok |-> TRUE, by |-> <<>>]
    ELSE LET it == re[k]
             fits == j <= Len(hay) /\ hay[j] \in it.cls
         IN CASE it.rep = "bol" -> IF j = 1 THEN MatchAt(re, k + 1, hay, j) ELSE NoMatch
              [] it.rep = "eol" ->
                    IF j = Len(hay) + 1 THEN MatchAt(re, k + 1, hay, j) ELSE NoMatch
              [] it.rep = "one" ->
                    IF fits
                    THEN LET r == MatchAt(re, k + 1, hay, j + 1)
                         IN IF r.ok THEN [ok |-> TRUE, by |-> <<k>> \o r.by] ELSE NoMatch
                    ELSE NoMatch
              [] it.rep = "star" ->
                    LET more == IF fits THEN MatchAt(re, k, hay, j + 1) ELSE NoMatch
                    IN IF more.ok THEN [ok |-> TRUE, by |-> <<k>> \o more.by]
                       ELSE MatchAt(re, k + 1, hay, j)

\* The characters of the match (starting at `from`) that items of group g consumed.
RECURSIVE GroupText(_, _, _, _, _, _)
GroupText(re, hay, from, by, g, n) ==
    IF n > Len(by) THEN <<>>
    ELSE (IF re[by[n]].grp = g THEN <<hay[from + n - 1]>> ELSE <<>>)
         \o GroupText(re, hay, from, by, g, n + 1)

\* Regex::captures: the leftmost match, and Captures::name for each group of it
\* (None for a name the pattern has no group of).
RECURSIVE CapturesFrom(_, _, _)
CapturesFrom(re, hay, from) ==
    IF from > Len(hay) + 1 THEN None
    ELSE LET m == MatchAt(re, 1, hay, from)
         IN IF m.ok
            THEN Some([g \in {"short", "long"} |->
                        IF \E k \in 1..Len(re) : re[k].grp = g
                        THEN Some(GroupText(re, hay, from, m.by, g, 1))
                        ELSE None])
            ELSE CapturesFrom(re, hay, from + 1)

captures(re, haystack) == CapturesFrom(re, haystack, 1)

\* extract_short_long_name panics when a capture it unwraps is None
extract_panics(haystack) ==
    LET c == captures(REG_SHORT_LONG_ARG_NAME, haystack)
    IN c.some /\ (~c.v["short"].some \/ ~c.v["long"].some)

extract_short_long_name(haystack) ==
    LET c == captures(REG_SHORT_LONG_ARG_NAME, haystack)
    IN IF c.some THEN Some(<<c.v["short"].v, c.v["long"].v>>) ELSE None

(***************************************************************************)
(* Argument: the view of one Argument Entry.  An Argument is its doc.      *)
(***************************************************************************)
bare_name(doc) == as_str(doc)

\* name() that forgets the bare text
name_no_bare(doc) == unwrap_or_default(as_str(Index(doc, "name")))

name(doc) == unwrap_or_default(or(bare_name(doc), as_str(Index(doc, "name"))))

\* short() that also infers from the `name` field of a structured entry
short_infers_name(doc) ==
    LET b == or(bare_name(doc), as_str(Index(doc, "name")))
    IN IF b.some
       THEN LET e == extract_short_long_name(b.v)
            IN flatten(IF e.some THEN Some(chars_next(e.v[1])) ELSE None)
       ELSE LET s == as_str(Index(doc, "short"))
            IN flatten(IF s.some THEN Some(chars_next(s.v)) ELSE None)

short(doc) ==
    LET b == bare_name(doc)
    IN IF b.some
       THEN LET e == extract_short_long_name(b.v)
            IN flatten(IF e.some THEN Some(chars_next(e.v[1])) ELSE None)
       ELSE LET s == as_str(Index(doc, "short"))
            IN flatten(IF s.some THEN Some(chars_next(s.v)) ELSE None)

\* long() that keeps the two hyphens of the bare text
long_keeps_hyphens(doc) ==
    LET b == bare_name(doc)
    IN IF b.some
       THEN LET e == extract_short_long_name(b.v)
            IN IF e.some THEN Some(<<"-", "-">> \o e.v[2]) ELSE None
       ELSE as_str(Index(doc, "long"))

long(doc) ==
    LET b == bare_name(doc)
    IN IF b.some
       THEN LET e == extract_short_long_name(b.v)
            IN IF e.some THEN Some(e.v[2]) ELSE None
       ELSE as_str(Index(doc, "long"))

\* short() and long() panic where extract_short_long_name does
accessor_panics(doc) == bare_name(doc).some /\ extract_panics(bare_name(doc).v)

type(doc) == unwrap_or(as_str(Index(doc, "type")), <<"s", "t", "r", "i", "n", "g">>)

default(doc) == unwrap_or_default(as_str(Index(doc, "default")))

select(doc) ==
    LET v == as_vec(Index(doc, "select"))
    IN IF v.some
       THEN Some([n \in 1..Len(v.v) |-> unwrap_or_default(as_str(v.v[n]))])
       ELSE None

(***************************************************************************)
(* ArgumentParser: the view of the document.  An ArgumentParser is its doc.*)
(***************************************************************************)
version(doc) == unwrap_or_default(as_str(Index(doc, "version")))

program(doc) == unwrap_or_default(as_str(Index(doc, "program")))

\* about() that reads the key of program()
about_reads_program(doc) == unwrap_or_default(as_str(Index(doc, "program")))

about(doc) == unwrap_or_default(as_str(Index(doc, "about")))

\* args() that collects the items last to first
parser_args_reversed(doc) ==
    LET v == as_vec(Index(doc, "args"))
    IN IF v.some THEN [n \in 1..Len(v.v) |-> v.v[Len(v.v) + 1 - n]] ELSE <<>>

\* Argument::new(item.clone()) for each item, in order; a Vec of Arguments
parser_args(doc) ==
    LET v == as_vec(Index(doc, "args"))
    IN IF v.some THEN [n \in 1..Len(v.v) |-> v.v[n]] ELSE <<>>

(***************************************************************************)
(* The nodes the accessors are called on.                                  *)
(***************************************************************************)
Absent == [kind |-> "Absent"]

\* a mapping of the keys whose value is not Absent
Mapping(keys, val) == Hash([k \in {x \in keys : val[x] # Absent} |-> val[k]])

\* "-C/--C"
CompactText == <<"-", "C", "/", "-", "-", "C">>

ScalarNodes == {Integer, Boolean, Null, BadValue, Real(<<"7">>)}

\* "-c/--count", "-c/count" and "-co/--count", and texts with an underscore
ExampleTexts ==
    { <<"-", "c", "/", "-", "-", "c", "o", "u", "n", "t">>,
      <<"-", "c", "/", "c", "o", "u", "n", "t">>,
      <<"-", "c", "o", "/", "-", "-", "c", "o", "u", "n", "t">>,
      <<"-", "C", "/", "-", "-", "C", "_">>,
      <<"-", "C", "/", "-", "-", "_">>,
      <<"-", "_", "/", "-", "-", "C">>,
      <<"S", "R", "C">> }

BareNodes == {String(t) : t \in Texts(MaxLen) \cup ExampleTexts}

FieldTexts == Texts(MaxFieldLen)

NameFields == {Absent, Integer, String(<<"C">>), String(CompactText)}

ShortFields ==
    {Absent, Null, Array(<<String(<<"C">>)>>), String(<<"_", "C">>)}
    \cup {String(t) : t \in FieldTexts}

LongFields == {Absent, Integer, String(<<"C", "_">>)} \cup {String(t) : t \in FieldTexts}

StructuredNodes ==
    {Mapping({"name", "short", "long"}, [name |-> n, short |-> s, long |-> l]) :
        n \in NameFields, s \in ShortFields, l \in LongFields}

ArgNodes == BareNodes \cup StructuredNodes \cup ScalarNodes \cup {Array(<<String(CompactText)>>)}

\* "hello"
Hello == <<"h", "e", "l", "l", "o">>

KeyFields == {Absent, Integer, Array(<<String(Hello)>>), String(<<>>), String(Hello), String(<<"7">>)}

ItemNodes == {String(<<"C">>), String(CompactText), Null,
              Mapping({"name"}, [name |-> String(<<"C">>)])}

ItemSeqs == UNION {[1..k -> ItemNodes] : k \in 0..MaxArgs}

ArgsFields == {Absent, Null, String(<<"C">>), Mapping({"name"}, [name |-> Null])}
              \cup {Array(v) : v \in ItemSeqs}

DocNodes ==
    {Mapping({"version", "program", "about", "args"},
             [version |-> v, program |-> p, about |-> a, args |-> g]) :
        v \in KeyFields, p \in KeyFields, a \in KeyFields, g \in ArgsFields}
    \cup ScalarNodes \cup {String(Hello), Array(<<String(Hello)>>)}

(***************************************************************************)
(* parse() not running: the accessors are called on their own.             *)
(***************************************************************************)
NoInput == [err |-> FALSE, docs |-> <<>>]

DriverIdle ==
    /\ yaml = NoInput
    /\ pc = "idle"
    /\ docs = <<>>
    /\ vres = "none"
    /\ parser = None
    /\ command = None
    /\ args = <<>>
    /\ idx = 0
    /\ handed = None
    /\ result = "none"

(***************************************************************************)
(* Calls of the accessors of one Argument, in any order, any number of     *)
(* times.                                                                  *)
(***************************************************************************)
InitArg ==
    /\ DriverIdle
    /\ node \in ArgNodes
    /\ op = "new"
    /\ ret = None

CallBareName ==
    /\ op' = "bare_name"
    /\ ret' = bare_name(node)
    /\ UNCHANGED <<node, driverVars>>

CallName ==
    /\ op' = "name"
    /\ ret' = name(node)
    /\ UNCHANGED <<node, driverVars>>

CallShort ==
    /\ op' = "short"
    /\ ret' = IF accessor_panics(node) THEN Panic ELSE short(node)
    /\ UNCHANGED <<node, driverVars>>

CallLong ==
    /\ op' = "long"
    /\ ret' = IF accessor_panics(node) THEN Panic ELSE long(node)
    /\ UNCHANGED <<node, driverVars>>

NextArg == CallBareName \/ CallName \/ CallShort \/ CallLong

SpecArg == InitArg /\ [][NextArg]_vars

(***************************************************************************)
(* Calls of the accessors of one ArgumentParser.                           *)
(***************************************************************************)
InitDoc ==
    /\ DriverIdle
    /\ node \in DocNodes
    /\ op = "new"
    /\ ret = None

CallVersion ==
    /\ op' = "version"
    /\ ret' = version(node)
    /\ UNCHANGED <<node, driverVars>>

CallProgram ==
    /\ op' = "program"
    /\ ret' = program(node)
    /\ UNCHANGED <<node, driverVars>>

CallAbout ==
    /\ op' = "about"
    /\ ret' = about(node)
    /\ UNCHANGED <<node, driverVars>>

CallArgs ==
    /\ op' = "args"
    /\ ret' = parser_args(node)
    /\ UNCHANGED <<node, driverVars>>

NextDoc == CallVersion \/ CallProgram \/ CallAbout \/ CallArgs

SpecDoc == InitDoc /\ [][NextDoc]_vars

(***************************************************************************)
(* parse(): the inputs.  An input text is given by what                    *)
(* YamlLoader::load_from_str makes of it: a scan error, or its documents.  *)
(***************************************************************************)
Src == <<"S", "R", "C">>

\* "-o/--output"
OutputText == <<"-", "o", "/", "-", "-", "o", "u", "t", "p", "u", "t">>

Output == <<"o", "u", "t", "p", "u", "t">>

Dest == <<"D", "E", "S", "T">>

Tool == <<"t", "o", "o", "l">>

Demo == <<"d", "e", "m", "o">>

EntryPool ==
    {String(Src), String(OutputText), String(<<>>), Null}
    \cup {Mapping({"name", "short", "long"}, [name |-> n, short |-> s, long |-> l]) :
            n \in {Absent, String(Dest)},
            s \in {Absent, String(<<"d">>), String(<<"d", "x">>)},
            l \in {Absent, String(<<"d", "e", "s", "t">>)}}
    \cup {Mapping({"type", "default", "select"},
                  [type |-> Integer, default |-> String(<<"7">>),
                   select |-> Array(<<String(<<"C">>), Integer>>)]),
          Mapping({"name", "long", "select"},
                  [name |-> Null, long |-> String(<<"-", "-", "7", "_">>), select |-> Null])}

EntrySeqs == UNION {[1..k -> EntryPool] : k \in 0..MaxArgs}

SchemaDocs ==
    {Mapping({"program", "about", "args"}, [program |-> p, about |-> a, args |-> g]) :
        p \in {Absent, Integer, String(Tool)},
        a \in {Absent, String(Demo)},
        g \in {Absent, String(Src)} \cup {Array(v) : v \in EntrySeqs}}
    \cup {String(Tool), Null, Array(<<String(Src)>>)}

\* the documents of the inputs of several documents
RootPool ==
    {Null, String(Tool),
     Mapping({"program", "args"},
             [program |-> String(Tool), args |-> Array(<<String(OutputText)>>)])}

Inputs ==
    {[err |-> TRUE, docs |-> <<>>], [err |-> FALSE, docs |-> <<>>]}
    \cup {[err |-> FALSE, docs |-> <<d>>] : d \in SchemaDocs}
    \cup {[err |-> FALSE, docs |-> ds] : ds \in UNION {[1..k -> RootPool] : k \in 2..MaxDocs}}

(***************************************************************************)
(* validate_root_docs                                                      *)
(***************************************************************************)
\* validate_root_docs that takes the first of several documents
validate_first_wins(ds) == IF Len(ds) = 0 THEN "NoDocs" ELSE "Ok"

\* validate_root_docs that lets an empty input through
validate_lets_empty(ds) == IF Len(ds) > 1 THEN "MultiDocs" ELSE "Ok"

validate_root_docs(ds) ==
    IF Len(ds) = 0 THEN "NoDocs"
    ELSE IF Len(ds) > 1 THEN "MultiDocs"
    ELSE "Ok"

(***************************************************************************)
(* parse(), one action per statement.                                      *)
(***************************************************************************)
Init ==
    /\ yaml \in Inputs
    /\ pc = "load"
    /\ docs = <<>>
    /\ vres = "none"
    /\ parser = None
    /\ command = None
    /\ args = <<>>
    /\ idx = 0
    /\ handed = None
    /\ result = "none"
    /\ node = Null
    /\ op = "new"
    /\ ret = None

\* let mut docs = YamlLoader::load_from_str(yaml)?;
Load ==
    /\ pc = "load"
    /\ IF yaml.err
       THEN /\ result' = "ParseYaml"
            /\ pc' = "done"
            /\ docs' = docs
       ELSE /\ docs' = yaml.docs
            /\ pc' = "validate"
            /\ result' = result
    /\ UNCHANGED <<yaml, vres, parser, command, args, idx, handed, callVars>>

\* validate_root_docs(&docs) with its result dropped
ValidateIgnored ==
    /\ pc = "validate"
    /\ vres' = validate_root_docs(docs)
    /\ pc' = "new"
    /\ UNCHANGED <<yaml, docs, parser, command, args, idx, handed, result, callVars>>

\* validate_root_docs(&docs)?;
Validate ==
    /\ pc = "validate"
    /\ vres' = validate_root_docs(docs)
    /\ IF vres' = "Ok"
       THEN pc' = "new" /\ result' = result
       ELSE pc' = "done" /\ result' = vres'
    /\ UNCHANGED <<yaml, docs, parser, command, args, idx, handed, callVars>>

\* let parser = ArgumentParser::new(docs.remove(0));  Vec::remove panics when
\* the index is out of bounds.
NewParser ==
    /\ pc = "new"
    /\ IF Len(docs) = 0
       THEN /\ result' = "panic"
            /\ pc' = "done"
            /\ UNCHANGED <<docs, parser>>
       ELSE /\ parser' = Some(Head(docs))
            /\ docs' = Tail(docs)
            /\ pc' = "command"
            /\ result' = result
    /\ UNCHANGED <<yaml, vres, command, args, idx, handed, callVars>>

\* let mut command = Command::new(parser.program().to_string()).about(...);
NewCommand ==
    /\ pc = "command"
    /\ command' = Some([name |-> program(parser.v), about |-> about(parser.v),
                        args |-> <<>>, built |-> FALSE])
    /\ pc' = "args"
    /\ UNCHANGED <<yaml, docs, vres, parser, args, idx, handed, result, callVars>>

\* let args = parser.args();
CollectArgs ==
    /\ pc = "args"
    /\ args' = parser_args(parser.v)
    /\ idx' = 1
    /\ pc' = "loop"
    /\ UNCHANGED <<yaml, docs, vres, parser, command, handed, result, callVars>>

\* clap's Arg::new(id).short(s): no short for None, no long
ClapArg(id, s) == [id |-> id, short |-> s, long |-> None]

\* one turn of the loop that never sets the long name
AddArgNoLong ==
    /\ pc = "loop"
    /\ idx <= Len(args)
    /\ LET arg == args[idx]
       IN IF accessor_panics(arg)
          THEN /\ result' = "panic"
               /\ pc' = "done"
               /\ UNCHANGED <<command, idx>>
          ELSE /\ command' = Some([command.v EXCEPT
                                      !.args = Append(@, ClapArg(name(arg), short(arg)))])
               /\ idx' = idx + 1
               /\ UNCHANGED <<pc, result>>
    /\ UNCHANGED <<yaml, docs, vres, parser, args, handed, callVars>>

\* one turn of `for arg in args.iter()`
AddArg ==
    /\ pc = "loop"
    /\ idx <= Len(args)
    /\ LET arg == args[idx]
       IN IF accessor_panics(arg)
          THEN /\ result' = "panic"
               /\ pc' = "done"
               /\ UNCHANGED <<command, idx>>
          ELSE LET clap_arg == ClapArg(name(arg), short(arg))
                   with_long == IF long(arg).some
                                THEN [clap_arg EXCEPT !.long = Some(long(arg).v)]
                                ELSE clap_arg
               IN /\ command' = Some([command.v EXCEPT !.args = Append(@, with_long)])
                  /\ idx' = idx + 1
                  /\ UNCHANGED <<pc, result>>
    /\ UNCHANGED <<yaml, docs, vres, parser, args, handed, callVars>>

\* command.build();
Build ==
    /\ pc = "loop"
    /\ idx > Len(args)
    /\ command' = Some([command.v EXCEPT !.built = TRUE])
    /\ pc' = "run"
    /\ UNCHANGED <<yaml, docs, vres, parser, args, idx, handed, result, callVars>>

\* let matches = command.get_matches();  the Command goes to the external engine
GetMatches ==
    /\ pc = "run"
    /\ handed' = command
    /\ pc' = "return"
    /\ UNCHANGED <<yaml, docs, vres, parser, command, args, idx, result, callVars>>

\* println!(...); Ok("".to_string())
Return ==
    /\ pc = "return"
    /\ result' = "Ok"
    /\ pc' = "done"
    /\ UNCHANGED <<yaml, docs, vres, parser, command, args, idx, handed, callVars>>

Next ==
    \/ Load
    \/ Validate
    \/ NewParser
    \/ NewCommand
    \/ CollectArgs
    \/ AddArg
    \/ Build
    \/ GetMatches
    \/ Return

Spec == Init /\ [][Next]_vars

(***************************************************************************)
(* What the claims speak of, stated on the nodes themselves.               *)
(***************************************************************************)
\* the value of key k of node n is a string
HasString(n, k) == n.kind = "Hash" /\ k \in DOMAIN n.hash /\ n.hash[k].kind = "String"

\* the string at key k of node n, the empty string when there is none
StringAt(n, k) == IF HasString(n, k) THEN n.hash[k].str ELSE <<>>

\* a letter followed by letters, digits and hyphens
IsToken(t) ==
    /\ Len(t) >= 1
    /\ t[1] \in Letter
    /\ \A k \in 2..Len(t) : t[k] \in Letter \cup Digit \cup {"-"}

\* '-' c '/--' l, with c a letter and l a token, and nothing before or after
IsCompact(t) ==
    /\ Len(t) >= 6
    /\ t[1] = "-"
    /\ t[2] \in Letter
    /\ t[3] = "/"
    /\ t[4] = "-"
    /\ t[5] = "-"
    /\ IsToken(SubSeq(t, 6, Len(t)))

IsText(t) == t \in Seq(AllChars)

IsOptText(o) == o = None \/ (o.some /\ IsText(o.v))

IsOptChar(o) == o = None \/ (o.some /\ o.v \in AllChars)

Errors == {"ParseYaml", "NoDocs", "MultiDocs"}

\* the input is one that parse() must refuse
Refused == yaml.err \/ Len(yaml.docs) # 1

(***************************************************************************)
(* C1: validate_root_docs returns NoDocs for no document, MultiDocs for    *)
(* two or more and Ok for exactly one, whatever the documents hold.        *)
(***************************************************************************)
C1_ValidateCountsDocs ==
    vres # "none" =>
        /\ vres = (IF Len(yaml.docs) = 0 THEN "NoDocs"
                   ELSE IF Len(yaml.docs) >= 2 THEN "MultiDocs" ELSE "Ok")
        /\ (vres = "Ok") <=> (Len(yaml.docs) = 1)

C1_Witness ==
    /\ vres = "MultiDocs"
    /\ Len(yaml.docs) = 2
    /\ yaml.docs[1] # yaml.docs[2]

(***************************************************************************)
(* C2: when deserialization fails or the documents are not exactly one,    *)
(* the run ends with an error and no ArgumentParser, Command or argument   *)
(* is ever made and nothing is handed to the engine; a Command exists only *)
(* after the load and validate_root_docs have succeeded.                   *)
(***************************************************************************)
C2_ErrorBeforeCommand ==
    /\ Refused =>
        /\ parser = None
        /\ command = None
        /\ handed = None
        /\ args = <<>>
        /\ pc \in {"load", "validate", "done"}
        /\ pc = "done" => result \in Errors
    /\ (parser # None \/ command # None \/ handed # None) =>
        /\ ~yaml.err
        /\ vres = "Ok"
        /\ parser = Some(yaml.docs[1])

C2_Witness ==
    /\ pc = "done"
    /\ result = "MultiDocs"
    /\ yaml.docs[1].kind = "Hash"
    /\ command = None
    /\ handed = None

(***************************************************************************)
(* C3: a run ends in ParseYaml, NoDocs, MultiDocs or Ok, never in a panic; *)
(* once validate_root_docs has let the one document through the run ends   *)
(* Ok, and every accessor has a value of its type on the document and on   *)
(* each of its args, whatever their shape.                                 *)
(***************************************************************************)
C3_OnlyThreeFailures ==
    /\ result \in {"none", "Ok"} \cup Errors
    /\ vres = "Ok" => result \in {"none", "Ok"}
    /\ (pc = "done" /\ vres = "Ok") => result = "Ok"
    /\ pc \in {"command", "args", "loop", "run", "return"} => parser.some
    /\ parser.some =>
        /\ IsText(version(parser.v))
        /\ IsText(program(parser.v))
        /\ IsText(about(parser.v))
        /\ \A n \in 1..Len(parser_args(parser.v)) :
              LET a == parser_args(parser.v)[n]
              IN /\ ~accessor_panics(a)
                 /\ IsOptText(bare_name(a))
                 /\ IsText(name(a))
                 /\ IsOptChar(short(a))
                 /\ IsOptText(long(a))
                 /\ IsText(type(a))
                 /\ IsText(default(a))
                 /\ select(a) = None
                    \/ (select(a).some /\ \A m \in 1..Len(select(a).v) : IsText(select(a).v[m]))

C3_Witness ==
    /\ pc = "done"
    /\ result = "Ok"
    /\ parser.v.kind = "Hash"
    /\ Len(parser_args(parser.v)) = 2
    /\ parser_args(parser.v)[1] = Null
    /\ parser_args(parser.v)[2].kind = "Hash"
    /\ select(parser_args(parser.v)[2]) = Some(<< <<"C">>, <<>> >>)

(***************************************************************************)
(* C4: for an input of exactly one document the Command handed to the      *)
(* engine is named program() and described by about(), and holds one flag  *)
(* per element of the document's args, in order, the i-th with the name(), *)
(* the short() and the long() of the i-th element, and with no short or    *)
(* long where that is absent.                                              *)
(***************************************************************************)
C4_AssembledSpec ==
    /\ (pc = "done" /\ ~Refused) => handed.some
    /\ handed.some =>
        LET d == yaml.docs[1]
            items == IF d.kind = "Hash" /\ "args" \in DOMAIN d.hash
                        /\ d.hash["args"].kind = "Array"
                     THEN d.hash["args"].vec ELSE <<>>
            flags == handed.v.args
        IN /\ handed.v.name = program(d)
           /\ handed.v.about = about(d)
           /\ Len(flags) = Len(items)
           /\ \A n \in 1..Len(items) :
                 /\ flags[n].id = name(items[n])
                 /\ flags[n].short = short(items[n])
                 /\ flags[n].long = long(items[n])

C4_Witness ==
    /\ handed.some
    /\ handed.v.name = Tool
    /\ handed.v.about = Demo
    /\ handed.v.args = << [id |-> Src, short |-> None, long |-> None],
                          [id |-> OutputText, short |-> Some("o"), long |-> Some(Output)] >>

(***************************************************************************)
(* C5: for a bare entry of text t, short() and long() are both present     *)
(* exactly when t is '-' c '/--' l with c one letter and l a letter        *)
(* followed by letters, digits and hyphens; then short() = c and           *)
(* long() = l, unchanged; otherwise both are absent.                       *)
(***************************************************************************)
C5_BareInference ==
    node.kind = "String" =>
        LET t == node.str
        IN /\ op = "short" => ret = (IF IsCompact(t) THEN Some(t[2]) ELSE None)
           /\ op = "long" =>
                 ret = (IF IsCompact(t) THEN Some(SubSeq(t, 6, Len(t))) ELSE None)

C5_Witness ==
    /\ node = String(<<"-", "C", "/", "-", "-", "C">>)
    /\ op = "long"
    /\ ret = Some(<<"C">>)

(***************************************************************************)
(* C6, as claimed: for every entry short() is one character or absent,     *)
(* and long() is absent or a token [a-zA-Z][a-zA-Z0-9-]*.                  *)
(***************************************************************************)
C6_Original ==
    /\ op = "short" => IsOptChar(ret)
    /\ op = "long" => (ret = None \/ (ret.some /\ IsToken(ret.v)))

(***************************************************************************)
(* C6, amended: for every entry short() is one character or absent; for a  *)
(* bare entry long() is absent or a token [a-zA-Z][a-zA-Z0-9-]* of one     *)
(* character or more; for a structured entry long() is absent or the       *)
(* string of the `long` field as it stands, token or not.                  *)
(***************************************************************************)
C6_Amended ==
    /\ op = "short" => IsOptChar(ret)
    /\ (op = "long" /\ node.kind = "String") => (ret = None \/ (ret.some /\ IsToken(ret.v)))
    /\ (op = "long" /\ node.kind # "String") =>
          (ret = None \/ (HasString(node, "long") /\ ret = Some(node.hash["long"].str)))

C6_Witness ==
    /\ op = "long"
    /\ node.kind = "String"
    /\ ret.some
    /\ Len(ret.v) = 2
    /\ ret.v[2] = "-"

(***************************************************************************)
(* C7: bare_name() is the text of a string scalar and absent for any other *)
(* node; name() is the bare text when there is one, else the string of the *)
(* `name` field, else the empty string.                                    *)
(***************************************************************************)
C7_Name ==
    /\ op = "bare_name" => ret = (IF node.kind = "String" THEN Some(node.str) ELSE None)
    /\ op = "name" =>
          ret = (IF node.kind = "String" THEN node.str ELSE StringAt(node, "name"))

C7_Witness ==
    /\ op = "name"
    /\ node = String(Src)
    /\ ret = Src

(***************************************************************************)
(* C8: args() returns the empty sequence when `args` is missing or no      *)
(* sequence, else the elements of `args`, one Argument each, in order;     *)
(* the call leaves the document as it was, and a second call returns what  *)
(* the first did.                                                          *)
(***************************************************************************)
C8_Args ==
    [][op' = "args" =>
          /\ ret' = (IF node.kind = "Hash" /\ "args" \in DOMAIN node.hash
                        /\ node.hash["args"].kind = "Array"
                     THEN node.hash["args"].vec ELSE <<>>)
          /\ node' = node
          /\ op = "args" => ret' = ret]_vars

C8_Witness ==
    /\ op = "args"
    /\ Len(ret) = 2
    /\ ret[1] = String(CompactText)
    /\ ret[2] = Null

(***************************************************************************)
(* C9: version(), program() and about() each return the string at their    *)
(* own key, and the empty string when the key is missing or holds no       *)
(* string.                                                                 *)
(***************************************************************************)
C9_TopLevelStrings ==
    \A k \in {"version", "program", "about"} : op = k => ret = StringAt(node, k)

C9_Witness ==
    /\ node = Mapping({"program"}, [program |-> String(Hello)])
    /\ op = "about"
    /\ ret = <<>>

(***************************************************************************)
(* C10: for an entry that is no string scalar, short() is the first        *)
(* character of the `short` field when that is a non-empty string and      *)
(* absent otherwise, long() is the `long` field when that is a string and  *)
(* absent otherwise; the `name` field is never searched for '-s/--long'.   *)
(***************************************************************************)
C10_StructuredShortLong ==
    node.kind # "String" =>
        /\ op = "short" =>
              ret = (IF HasString(node, "short") /\ Len(node.hash["short"].str) > 0
                     THEN Some(node.hash["short"].str[1]) ELSE None)
        /\ op = "long" =>
              ret = (IF HasString(node, "long") THEN Some(node.hash["long"].str) ELSE None)

C10_Witness ==
    /\ node = Mapping({"name", "short"},
                      [name |-> String(CompactText), short |-> String(<<"7", "C">>)])
    /\ op = "short"
    /\ ret = Some("7")

====
